---- MODULE Spec2Model ----
(***************************************************************************)
(* Model of docspec_python/namespace_packages.py:                          *)
(*   - RelPathPattern: the gitignore-like matcher for relative paths,      *)
(*   - root_reducer:   the fold that keeps only the topmost items,         *)
(*   - find_module_roots: module discovery over a directory tree.          *)
(*                                                                         *)
(* Text is modelled character by character: a pattern text, a path segment *)
(* and a pattern term are sequences of one-character strings, so that      *)
(* parsing (prefix and suffix stripping, splitting on "/") and glob        *)
(* matching are computed as the code computes them.  A relative path is    *)
(* the sequence of its segments (pathlib's `parts`).                       *)
(***************************************************************************)
EXTENDS Integers, Sequences, FiniteSets, TLC

\* ------------------------------------------------------------------------
\* Bounds
\* ------------------------------------------------------------------------
\* Longest sequence of terms a generated pattern text is built from.
MaxTerms == 3
\* Longest relative path (number of segments) handed to is_match.
MaxParts == 3
\* Longest input sequence folded by root_reducer.
MaxLen == 3

\* ------------------------------------------------------------------------
\* Generic helpers
\* ------------------------------------------------------------------------
Range(s) == {s[i] : i \in 1..Len(s)}

\* All sequences over S of length 0..n.
SeqsUpTo(S, n) == UNION {[1..k -> S] : k \in 0..n}

\* Python's s[:n] for a sequence.
Prefix(s, n) == SubSeq(s, 1, n)

\* `other in self.parents` for pure paths: other is a strict prefix of self.
IsStrictPrefix(other, self) ==
  /\ Len(other) < Len(self)
  /\ Prefix(self, Len(other)) = other

\* ------------------------------------------------------------------------
\* fnmatch.fnmatch(name, pat) on POSIX (normcase is the identity) for the
\* wildcard alphabet used here: "*" any run of characters, "?" exactly one
\* character, anything else itself.  (No "[" occurs in the modelled texts.)
\* ------------------------------------------------------------------------
RECURSIVE fnmatch(_, _)
fnmatch(name, pat) ==
  IF pat = <<>> THEN name = <<>>
  ELSE IF Head(pat) = "*"
    THEN \/ fnmatch(name, Tail(pat))
         \/ (name # <<>> /\ fnmatch(Tail(name), pat))
  ELSE IF name = <<>> THEN FALSE
  ELSE IF Head(pat) = "?" THEN fnmatch(Tail(name), Tail(pat))
  ELSE Head(pat) = Head(name) /\ fnmatch(Tail(name), Tail(pat))

\* ------------------------------------------------------------------------
\* RelPathPattern.__init__
\* ------------------------------------------------------------------------
\* str.startswith
startswith(s, p) == Len(s) >= Len(p) /\ Prefix(s, Len(p)) = p

\* str.endswith("/")
endswith_slash(s) == s # <<>> /\ s[Len(s)] = "/"

\* str.rstrip("/"): drop every trailing "/".
RECURSIVE rstrip_slash(_)
rstrip_slash(s) ==
  IF endswith_slash(s) THEN rstrip_slash(Prefix(s, Len(s) - 1)) ELSE s

\* tuple(term for term in pattern.split("/") if term): `cur` is the term
\* being read, closed at each "/" and at the end; empty terms are dropped.
RECURSIVE split_terms(_, _)
split_terms(s, cur) ==
  IF s = <<>> THEN (IF cur = <<>> THEN <<>> ELSE <<cur>>)
  ELSE IF Head(s) = "/"
    THEN (IF cur = <<>> THEN <<>> ELSE <<cur>>) \o split_terms(Tail(s), <<>>)
  ELSE split_terms(Tail(s), Append(cur, Head(s)))

Bang == <<"!">>
SlashBang == <<"\\", "!">>
DoubleSplat == <<"*", "*">>

\* Mutant: the anchored flag is read off the text before the trailing "/"
\* is stripped.
RelPathPattern_AnchorBeforeStrip(pattern) ==
  LET negate   == startswith(pattern, Bang)
      p1       == IF negate THEN Tail(pattern)
                  ELSE IF startswith(pattern, SlashBang) THEN Tail(pattern)
                  ELSE pattern
      dir_only == endswith_slash(p1)
      p2       == IF dir_only THEN rstrip_slash(p1) ELSE p1
      terms    == split_terms(p2, <<>>)
  IN [ pattern  |-> pattern,
       terms    |-> terms,
       anchored |-> "/" \in Range(p1),
       negate   |-> negate,
       dir_only |-> dir_only,
       error    |-> terms = <<>> ]

\* Mutant: every pattern is anchored.
RelPathPattern_AlwaysAnchored(pattern) ==
  LET negate   == startswith(pattern, Bang)
      p1       == IF negate THEN Tail(pattern)
                  ELSE IF startswith(pattern, SlashBang) THEN Tail(pattern)
                  ELSE pattern
      dir_only == endswith_slash(p1)
      p2       == IF dir_only THEN rstrip_slash(p1) ELSE p1
      terms    == split_terms(p2, <<>>)
  IN [ pattern  |-> pattern,
       terms    |-> terms,
       anchored |-> TRUE,
       negate   |-> negate,
       dir_only |-> dir_only,
       error    |-> terms = <<>> ]

\* The constructor.  `error` stands for the ValueError raised when no term
\* is left; the other fields are the attributes set before the raise (class
\* defaults are False).
RelPathPattern(pattern) ==
  LET negate   == startswith(pattern, Bang)
      p1       == IF negate THEN Tail(pattern)
                  ELSE IF startswith(pattern, SlashBang) THEN Tail(pattern)
                  ELSE pattern
      dir_only == endswith_slash(p1)
      p2       == IF dir_only THEN rstrip_slash(p1) ELSE p1
      terms    == split_terms(p2, <<>>)
  IN [ pattern  |-> pattern,
       terms    |-> terms,
       anchored |-> "/" \in Range(p2),
       negate   |-> negate,
       dir_only |-> dir_only,
       error    |-> terms = <<>> ]

\* ------------------------------------------------------------------------
\* The base directory of a match.  rel_to is None (given = FALSE) or a
\* directory path together with what the filesystem holds under it: `dirs`
\* is the set of relative paths P for which Path(rel_to, *P).is_dir().
\* ------------------------------------------------------------------------
NoRelTo == [given |-> FALSE, dirs |-> {}]
RelTo(dirs) == [given |-> TRUE, dirs |-> dirs]

\* Path(rel_to, *parts).is_dir()
is_dir(rel_to, parts) == parts \in rel_to.dirs

\* ------------------------------------------------------------------------
\* RelPathPattern._is_match (indices are 0-based as in the code)
\* ------------------------------------------------------------------------
\* Mutant: the directory check of a dir_only pattern is skipped.
RECURSIVE _is_match_NoDirCheck(_, _, _, _, _, _)
_is_match_NoDirCheck(self, rel_path, anchored, rel_to, term_index, part_index) ==
  IF term_index >= Len(self.terms) THEN TRUE
  ELSE IF part_index >= Len(rel_path) THEN FALSE
  ELSE LET file_pattern == self.terms[term_index + 1] IN
    IF file_pattern = DoubleSplat
      THEN _is_match_NoDirCheck(self, rel_path, FALSE, rel_to, term_index + 1, part_index)
    ELSE IF fnmatch(rel_path[part_index + 1], file_pattern)
      THEN _is_match_NoDirCheck(self, rel_path, TRUE, rel_to, term_index + 1, part_index + 1)
    ELSE IF anchored THEN FALSE
    ELSE _is_match_NoDirCheck(self, rel_path, FALSE, rel_to, term_index, part_index + 1)

\* Mutant: a mismatch while anchored skips the segment instead of failing.
RECURSIVE _is_match_SkipWhenAnchored(_, _, _, _, _, _)
_is_match_SkipWhenAnchored(self, rel_path, anchored, rel_to, term_index, part_index) ==
  IF term_index >= Len(self.terms)
    THEN IF self.dir_only /\ rel_to.given
           THEN is_dir(rel_to, Prefix(rel_path, part_index))
           ELSE TRUE
  ELSE IF part_index >= Len(rel_path) THEN FALSE
  ELSE LET file_pattern == self.terms[term_index + 1] IN
    IF file_pattern = DoubleSplat
      THEN _is_match_SkipWhenAnchored(self, rel_path, FALSE, rel_to, term_index + 1, part_index)
    ELSE IF fnmatch(rel_path[part_index + 1], file_pattern)
      THEN _is_match_SkipWhenAnchored(self, rel_path, TRUE, rel_to, term_index + 1, part_index + 1)
    ELSE _is_match_SkipWhenAnchored(self, rel_path, FALSE, rel_to, term_index, part_index + 1)

\* Mutant: a matched term after "**" does not re-anchor, so the scan goes on
\* after a later mismatch.
RECURSIVE _is_match_NoReanchor(_, _, _, _, _, _)
_is_match_NoReanchor(self, rel_path, anchored, rel_to, term_index, part_index) ==
  IF term_index >= Len(self.terms)
    THEN IF self.dir_only /\ rel_to.given
           THEN is_dir(rel_to, Prefix(rel_path, part_index))
           ELSE TRUE
  ELSE IF part_index >= Len(rel_path) THEN FALSE
  ELSE LET file_pattern == self.terms[term_index + 1] IN
    IF file_pattern = DoubleSplat
      THEN _is_match_NoReanchor(self, rel_path, FALSE, rel_to, term_index + 1, part_index)
    ELSE IF fnmatch(rel_path[part_index + 1], file_pattern)
      THEN _is_match_NoReanchor(self, rel_path, anchored, rel_to, term_index + 1, part_index + 1)
    ELSE IF anchored THEN FALSE
    ELSE _is_match_NoReanchor(self, rel_path, FALSE, rel_to, term_index, part_index + 1)

RECURSIVE _is_match(_, _, _, _, _, _)
_is_match(self, rel_path, anchored, rel_to, term_index, part_index) ==
  \* All the terms are matched: the pattern matches, for a dir_only pattern
  \* with a base only if the path matched so far is a directory.
  IF term_index >= Len(self.terms)
    THEN IF self.dir_only /\ rel_to.given
           THEN is_dir(rel_to, Prefix(rel_path, part_index))
           ELSE TRUE
  \* Out of path parts before all the terms are matched.
  ELSE IF part_index >= Len(rel_path) THEN FALSE
  ELSE LET file_pattern == self.terms[term_index + 1] IN
    \* "**": un-anchor and advance the term index only.
    IF file_pattern = DoubleSplat
      THEN _is_match(self, rel_path, FALSE, rel_to, term_index + 1, part_index)
    \* The part matches the term: advance both, anchored from here on.
    ELSE IF fnmatch(rel_path[part_index + 1], file_pattern)
      THEN _is_match(self, rel_path, TRUE, rel_to, term_index + 1, part_index + 1)
    \* A mismatch while anchored fails.
    ELSE IF anchored THEN FALSE
    \* Otherwise go on to the next path part.
    ELSE _is_match(self, rel_path, FALSE, rel_to, term_index, part_index + 1)

\* The part_index at which _is_match finds every term matched (the index
\* it cuts rel_path.parts at for the directory check), NoMatch when the
\* walk fails before that.
NoMatch == -1

RECURSIVE matched_part_index(_, _, _, _, _)
matched_part_index(self, rel_path, anchored, term_index, part_index) ==
  IF term_index >= Len(self.terms) THEN part_index
  ELSE IF part_index >= Len(rel_path) THEN NoMatch
  ELSE LET file_pattern == self.terms[term_index + 1] IN
    IF file_pattern = DoubleSplat
      THEN matched_part_index(self, rel_path, FALSE, term_index + 1, part_index)
    ELSE IF fnmatch(rel_path[part_index + 1], file_pattern)
      THEN matched_part_index(self, rel_path, TRUE, term_index + 1, part_index + 1)
    ELSE IF anchored THEN NoMatch
    ELSE matched_part_index(self, rel_path, FALSE, term_index, part_index + 1)

\* Mutant: the negate flag is ignored.
is_match_IgnoreNegate(self, rel_path, rel_to) ==
  _is_match(self, rel_path, self.anchored, rel_to, 0, 0)

\* RelPathPattern.is_match for a relative path (an absolute one raises, see
\* the action IsMatchAbsolute).
is_match(self, rel_path, rel_to) ==
  LET result == _is_match(self, rel_path, self.anchored, rel_to, 0, 0)
  IN IF self.negate THEN ~result ELSE result

\* ------------------------------------------------------------------------
\* root_reducer.  The predicate is_descendant is given as the set of the
\* pairs <<x, y>> for which is_descendant(x, y) is true.
\* ------------------------------------------------------------------------
\* list.remove(x): drop the first member equal to x.
RECURSIVE list_remove(_, _)
list_remove(list, x) ==
  IF list = <<>> THEN <<>>
  ELSE IF Head(list) = x THEN Tail(list)
  ELSE <<Head(list)>> \o list_remove(Tail(list), x)

\* for root in to_rm: roots.remove(root)
RECURSIVE remove_each(_, _)
remove_each(roots, to_rm) ==
  IF to_rm = <<>> THEN roots
  ELSE remove_each(list_remove(roots, Head(to_rm)), Tail(to_rm))

\* Mutant: the roots the item covers are not removed.
reducer_NoRemoval(is_descendant, roots, item) ==
  IF \E i \in 1..Len(roots) : <<item, roots[i]>> \in is_descendant
    THEN roots
    ELSE Append(roots, item)

\* Mutant: the new root is put in front of the list.
reducer_Prepend(is_descendant, roots, item) ==
  IF \E i \in 1..Len(roots) : <<item, roots[i]>> \in is_descendant
    THEN roots
    ELSE LET covered(root) == <<root, item>> \in is_descendant
         IN <<item>> \o remove_each(roots, SelectSeq(roots, covered))

\* The reducer returned by root_reducer(is_descendant).  The loop returns
\* at the first root the item descends from, whatever it has put in to_rm
\* before; otherwise to_rm ends as the roots that descend from the item, in
\* list order.
reducer(is_descendant, roots, item) ==
  IF \E i \in 1..Len(roots) : <<item, roots[i]>> \in is_descendant
    THEN roots
    ELSE LET covered(root) == <<root, item>> \in is_descendant
             to_rm == SelectSeq(roots, covered)
         IN Append(remove_each(roots, to_rm), item)

\* functools.reduce(reducer, items, roots)
RECURSIVE reduce(_, _, _)
reduce(is_descendant, items, roots) ==
  IF items = <<>> THEN roots
  ELSE reduce(is_descendant, Tail(items),
              reducer(is_descendant, roots, Head(items)))

\* ------------------------------------------------------------------------
\* FoundModule.  Every path of a discovery lies under the resolved search
\* directory, SearchAbsPath.
\* ------------------------------------------------------------------------
SearchAbsPath == << <<"/">>, <<"w">> >>

FoundModule(rel_path) ==
  [path |-> SearchAbsPath \o rel_path, rel_path |-> rel_path]

\* PurePath.suffix of a file name: from its last "." on, when that "." is
\* neither the first nor the last character; else empty.
LastDot(name) ==
  LET dots == {i \in 1..Len(name) : name[i] = "."}
  IN IF dots = {} THEN 0 ELSE CHOOSE i \in dots : \A j \in dots : j <= i

suffix(name) ==
  LET i == LastDot(name)
  IN IF 1 < i /\ i < Len(name) THEN SubSeq(name, i, Len(name)) ELSE <<>>

\* PurePath.with_suffix(""), as parts.
with_suffix_empty(parts) ==
  LET name == parts[Len(parts)]
  IN Append(Prefix(parts, Len(parts) - 1),
            Prefix(name, Len(name) - Len(suffix(name))))

\* ".".join(parts)
RECURSIVE dot_join(_)
dot_join(parts) ==
  IF parts = <<>> THEN <<>>
  ELSE IF Len(parts) = 1 THEN parts[1]
  ELSE parts[1] \o <<".">> \o dot_join(Tail(parts))

\* FoundModule.name
name(self) == dot_join(with_suffix_empty(self.rel_path))

\* FoundModule.is_descendant_of
is_descendant_of(self, other) == IsStrictPrefix(other.path, self.path)

\* FoundModule.is_descendant_of as the set of pairs it is true of, over the
\* modules of a list.
DescendantPairs(modules) ==
  {pair \in Range(modules) \X Range(modules) :
     is_descendant_of(pair[1], pair[2])}

\* ------------------------------------------------------------------------
\* find_module_roots.  The tree under the search directory is a function
\* `fs` from relative paths to what is there: "absent", "dir", "file" (a
\* regular file) or "nsinit" (a regular file whose stripped text is one of
\* NAMESPACE_INIT_CONTENTS).
\* ------------------------------------------------------------------------
InitPy == <<"_", "_", "i", "n", "i", "t", "_", "_", ".", "p", "y">>
StarPy == <<"*", ".", "p", "y">>

\* Path.is_file / Path.is_dir under the search directory
is_file(fs, rel_path) == fs[rel_path] \in {"file", "nsinit"}
fs_dirs(fs) == {<<>>} \cup {q \in DOMAIN fs : fs[q] = "dir"}

\* search_abs_path.glob("**/*.py"): every entry, at any depth, whose name
\* matches "*.py".
glob_py(fs) ==
  {q \in DOMAIN fs : fs[q] # "absent" /\ fnmatch(q[Len(q)], StarPy)}

\* is_namespace_init(path)
is_namespace_init(fs, rel_path) ==
  rel_path[Len(rel_path)] = InitPy /\ fs[rel_path] = "nsinit"

\* Mutant: the exclude patterns are tested on the containing directory.
is_excluded_ParentPath(exclude_patterns, fs, rel_path) ==
  \E i \in 1..Len(exclude_patterns) :
    is_match(exclude_patterns[i], Prefix(rel_path, Len(rel_path) - 1),
             RelTo(fs_dirs(fs)))

\* is_excluded(path), inside find_module_roots
is_excluded(exclude_patterns, fs, rel_path) ==
  \E i \in 1..Len(exclude_patterns) :
    is_match(exclude_patterns[i], rel_path, RelTo(fs_dirs(fs)))

\* any("." in part for part in rel_path.parent.parts)
dotted_parent(rel_path) ==
  \E i \in 1..(Len(rel_path) - 1) : "." \in Range(rel_path[i])

\* Mutant: an __init__.py that passes the filters is kept as it is.
visit_KeepInitFile(exclude_patterns, fs, found_modules, rel_path) ==
  IF \/ ~is_file(fs, rel_path)
     \/ rel_path = <<InitPy>>
     \/ dotted_parent(rel_path)
     \/ is_namespace_init(fs, rel_path)
     \/ is_excluded(exclude_patterns, fs, rel_path)
    THEN found_modules
    ELSE Append(found_modules, FoundModule(rel_path))

\* One turn of the loop over the glob: the filters, in order, then the
\* containing directory in place of an __init__.py, then the append.
visit(exclude_patterns, fs, found_modules, rel_path) ==
  IF \/ ~is_file(fs, rel_path)
     \/ rel_path = <<InitPy>>
     \/ dotted_parent(rel_path)
     \/ is_namespace_init(fs, rel_path)
     \/ is_excluded(exclude_patterns, fs, rel_path)
    THEN found_modules
    ELSE IF rel_path[Len(rel_path)] = InitPy
      THEN Append(found_modules,
                  FoundModule(Prefix(rel_path, Len(rel_path) - 1)))
      ELSE Append(found_modules, FoundModule(rel_path))

\* ------------------------------------------------------------------------
\* State
\* ------------------------------------------------------------------------
VARIABLES
  \* -- one RelPathPattern object and the last call of its is_match --
  m_pc,       \* "new" (text chosen), "ValueError", "ready" (constructed),
              \* "returned" (is_match was called)
  m_pattern,  \* the pattern text handed to the constructor
  m_self,     \* the constructed object
  m_call,     \* the arguments of the last is_match call
  m_ret,      \* what the last is_match call did
  \* -- one reduce(root_reducer(is_descendant), input, []) --
  r_pc,             \* "fold" (in the fold), "done" (reduce has returned)
  r_is_descendant,  \* the predicate, as a set of pairs
  r_input,          \* the sequence being folded
  r_next,           \* how many items of the input are folded in
  r_roots,          \* the accumulator
  \* -- one find_module_roots(search_dir, exclude) --
  d_pc,        \* "start", "walk" (in the loop over the glob), "done",
               \* "AssertionError"
  d_root,      \* what search_dir is: "absent", "file" or "dir"
  d_fs,        \* the tree under search_dir
  d_exclude,   \* the exclude pattern texts
  d_patterns,  \* exclude_patterns, compiled
  d_pending,   \* the paths the glob has still to yield
  d_found,     \* found_modules
  d_result     \* the list returned

m_vars == <<m_pc, m_pattern, m_self, m_call, m_ret>>
r_vars == <<r_pc, r_is_descendant, r_input, r_next, r_roots>>
d_vars == <<d_pc, d_root, d_fs, d_exclude, d_patterns, d_pending, d_found,
            d_result>>
vars == <<m_vars, r_vars, d_vars>>

\* ------------------------------------------------------------------------
\* Inputs of the matcher
\* ------------------------------------------------------------------------
\* Path segments: two that differ in the first character and one longer.
SegSet == {<<"a">>, <<"b">>, <<"a", "b">>}

\* Pattern terms: the literal "b", "?" that matches the one-character
\* segments, "a*" that matches those starting with "a", and the double
\* splat.
TermSet == {<<"b">>, <<"?">>, <<"a", "*">>, DoubleSplat}

\* "/".join(terms)
RECURSIVE JoinTerms(_)
JoinTerms(terms) ==
  IF terms = <<>> THEN <<>>
  ELSE IF Len(terms) = 1 THEN terms[1]
  ELSE terms[1] \o <<"/">> \o JoinTerms(Tail(terms))

\* Pattern texts: an optional "!" or "\!" in front, an optional leading
\* "/", up to MaxTerms terms joined by "/", an optional trailing "/".  With
\* no term these are the texts "", "/", "//", "!", ... that do not compile.
PatternTexts ==
  { pre \o lead \o JoinTerms(terms) \o trail :
      pre \in {<<>>, Bang, SlashBang},
      lead \in {<<>>, <<"/">>},
      terms \in SeqsUpTo(TermSet, MaxTerms),
      trail \in {<<>>, <<"/">>} }

\* Relative paths, as pathlib parts.
RelPaths == SeqsUpTo(SegSet, MaxParts)

\* An absolute path has the root as its first part.
RootPart == <<"/">>
AbsPaths == {<<RootPart>> \o p : p \in SeqsUpTo(SegSet, 1)}

\* PurePath.is_absolute
is_absolute(path) == path # <<>> /\ path[1] = RootPart

\* The bases a path is matched against: none, or a directory under which
\* the first d segments of the path name directories and the rest do not.
RelTos(path) ==
  {NoRelTo} \cup {RelTo({Prefix(path, k) : k \in 0..d}) : d \in 0..Len(path)}

NoCall == [rel_path |-> <<>>, rel_to |-> NoRelTo]
NoRet == [kind |-> "none", value |-> FALSE]
NoSelf == RelPathPattern(<<>>)

\* ------------------------------------------------------------------------
\* Specification of the fold
\* ------------------------------------------------------------------------
\* The items folded, and every binary relation over them as the predicate.
Items == {"x", "y", "z"}
Relations == SUBSET (Items \X Items)

\* The fold is not part of the run.
ReduceIdle ==
  /\ r_pc = "idle"
  /\ r_is_descendant = {}
  /\ r_input = <<>>
  /\ r_next = 0
  /\ r_roots = <<>>

\* Discovery is not part of the run.
DiscoverIdle ==
  /\ d_pc = "idle"
  /\ d_root = "absent"
  /\ d_fs = <<>>
  /\ d_exclude = <<>>
  /\ d_patterns = <<>>
  /\ d_pending = {}
  /\ d_found = <<>>
  /\ d_result = <<>>

\* The matcher is not part of the run.
MatchIdle ==
  /\ m_pc = "idle"
  /\ m_pattern = <<>>
  /\ m_self = NoSelf
  /\ m_call = NoCall
  /\ m_ret = NoRet

ReduceInit ==
  /\ MatchIdle
  /\ DiscoverIdle
  /\ r_pc = "fold"
  /\ r_is_descendant \in Relations
  /\ r_input \in SeqsUpTo(Items, MaxLen)
  /\ r_next = 0
  /\ r_roots = <<>>

\* One call of the reducer by reduce: the next item of the input.
ReduceStep ==
  /\ r_pc = "fold"
  /\ r_next < Len(r_input)
  /\ r_roots' = reducer(r_is_descendant, r_roots, r_input[r_next + 1])
  /\ r_next' = r_next + 1
  /\ UNCHANGED <<r_pc, r_is_descendant, r_input>>
  /\ UNCHANGED <<m_vars, d_vars>>

\* The input is exhausted: reduce returns the accumulator.
ReduceReturn ==
  /\ r_pc = "fold"
  /\ r_next = Len(r_input)
  /\ r_pc' = "done"
  /\ UNCHANGED <<r_is_descendant, r_input, r_next, r_roots>>
  /\ UNCHANGED <<m_vars, d_vars>>

ReduceNext == ReduceStep \/ ReduceReturn

\* ------------------------------------------------------------------------
\* Specification of the matcher
\* ------------------------------------------------------------------------
MatchInit ==
  /\ ReduceIdle
  /\ DiscoverIdle
  /\ m_pc = "new"
  /\ m_pattern \in PatternTexts
  /\ m_self = NoSelf
  /\ m_call = NoCall
  /\ m_ret = NoRet

\* RelPathPattern(pattern)
Construct ==
  /\ m_pc = "new"
  /\ m_self' = RelPathPattern(m_pattern)
  /\ m_pc' = IF m_self'.error THEN "ValueError" ELSE "ready"
  /\ UNCHANGED <<m_pattern, m_call, m_ret>>
  /\ UNCHANGED <<r_vars, d_vars>>

\* self.is_match(rel_path, rel_to=rel_to)
IsMatch ==
  /\ m_pc = "ready"
  /\ \E rel_path \in RelPaths \cup AbsPaths :
       \E rel_to \in RelTos(rel_path) :
         /\ m_call' = [rel_path |-> rel_path, rel_to |-> rel_to]
         /\ m_ret' = IF is_absolute(rel_path)
                       THEN [kind |-> "ValueError", value |-> FALSE]
                       ELSE [kind |-> "value",
                             value |-> is_match(m_self, rel_path, rel_to)]
  /\ m_pc' = "returned"
  /\ UNCHANGED <<m_pattern, m_self>>
  /\ UNCHANGED <<r_vars, d_vars>>

MatchNext == Construct \/ IsMatch

\* ------------------------------------------------------------------------
\* Specification of the discovery
\* ------------------------------------------------------------------------
\* Longest exclude list.
MaxExclude == 1

\* The names in the trees searched.
Ns == <<"n", "s">>
Sub == <<"s", "u", "b">>
MPy == <<"m", ".", "p", "y">>
DottedDir == <<"v", ".", "x">>
DirPy == <<"d", ".", "p", "y">>

\* The places of a tree and what may be at each: a namespace directory
\* with a package below it, init files at three levels, module files, a
\* directory with a "." in its name, a directory named like a module file.
Places ==
  { <<InitPy>>, <<Ns>>, <<Ns, InitPy>>, <<Ns, Sub>>, <<Ns, Sub, InitPy>>,
    <<Ns, Sub, MPy>>, <<DottedDir>>, <<DottedDir, MPy>>, <<DirPy>> }

KindsAt(place) ==
  IF place[Len(place)] = InitPy THEN {"absent", "file", "nsinit"}
  ELSE IF place[Len(place)] = MPy THEN {"absent", "file"}
  ELSE {"absent", "dir"}

\* The trees: whatever is there stands in a directory that is there.
Trees ==
  { fs \in [Places -> {"absent", "dir", "file", "nsinit"}] :
      \A place \in Places :
        /\ fs[place] \in KindsAt(place)
        /\ (fs[place] # "absent" /\ Len(place) > 1)
             => fs[Prefix(place, Len(place) - 1)] = "dir" }

EmptyTree == [place \in Places |-> "absent"]

\* The exclude pattern texts: "sub/", "/ns/", "m.py", "m.py/", "!sub",
\* "**/sub/**".
ExcludeTexts ==
  { Append(Sub, "/"),
    <<"/">> \o Ns \o <<"/">>,
    MPy,
    Append(MPy, "/"),
    Bang \o Sub,
    DoubleSplat \o <<"/">> \o Sub \o <<"/">> \o DoubleSplat }

DiscoverInit ==
  /\ MatchIdle
  /\ ReduceIdle
  /\ d_pc = "start"
  /\ d_root \in {"absent", "file", "dir"}
  /\ d_fs \in IF d_root = "dir" THEN Trees ELSE {EmptyTree}
  /\ d_exclude \in SeqsUpTo(ExcludeTexts, MaxExclude)
  /\ d_patterns = <<>>
  /\ d_pending = {}
  /\ d_found = <<>>
  /\ d_result = <<>>

\* search_dir does not exist: no module.
FindNothing ==
  /\ d_pc = "start"
  /\ d_root = "absent"
  /\ d_result' = <<>>
  /\ d_pc' = "done"
  /\ UNCHANGED <<d_root, d_fs, d_exclude, d_patterns, d_pending, d_found>>
  /\ UNCHANGED <<m_vars, r_vars>>

\* search_dir exists and is no directory: the patterns are compiled and
\* the assertion fails.
FindAsserts ==
  /\ d_pc = "start"
  /\ d_root = "file"
  /\ d_patterns' = [i \in 1..Len(d_exclude) |-> RelPathPattern(d_exclude[i])]
  /\ d_pc' = "AssertionError"
  /\ UNCHANGED <<d_root, d_fs, d_exclude, d_pending, d_found, d_result>>
  /\ UNCHANGED <<m_vars, r_vars>>

\* search_dir is a directory: the patterns are compiled and the glob starts.
FindGlob ==
  /\ d_pc = "start"
  /\ d_root = "dir"
  /\ d_patterns' = [i \in 1..Len(d_exclude) |-> RelPathPattern(d_exclude[i])]
  /\ d_pending' = glob_py(d_fs)
  /\ d_pc' = "walk"
  /\ UNCHANGED <<d_root, d_fs, d_exclude, d_found, d_result>>
  /\ UNCHANGED <<m_vars, r_vars>>

\* The glob yields its next path, in no order the code can rely on, and the
\* loop body runs on it.
FindVisit ==
  /\ d_pc = "walk"
  /\ \E rel_path \in d_pending :
       /\ d_found' = visit(d_patterns, d_fs, d_found, rel_path)
       /\ d_pending' = d_pending \ {rel_path}
  /\ UNCHANGED <<d_pc, d_root, d_fs, d_exclude, d_patterns, d_result>>
  /\ UNCHANGED <<m_vars, r_vars>>

\* The glob is exhausted: found_modules is reduced to its roots.
FindReturn ==
  /\ d_pc = "walk"
  /\ d_pending = {}
  /\ d_result' = reduce(DescendantPairs(d_found), d_found, <<>>)
  /\ d_pc' = "done"
  /\ UNCHANGED <<d_root, d_fs, d_exclude, d_patterns, d_pending, d_found>>
  /\ UNCHANGED <<m_vars, r_vars>>

DiscoverNext ==
  FindNothing \/ FindAsserts \/ FindGlob \/ FindVisit \/ FindReturn

\* ------------------------------------------------------------------------
\* Specifications: each runs one component and leaves the others idle
\* ------------------------------------------------------------------------
SpecMatch == MatchInit /\ [][MatchNext]_vars

SpecReduce == ReduceInit /\ [][ReduceNext]_vars

SpecDiscover == DiscoverInit /\ [][DiscoverNext]_vars

\* ------------------------------------------------------------------------
\* Vocabulary of the matcher claims
\* ------------------------------------------------------------------------
\* is_match returned a verdict (the path was relative).
Returned == m_pc = "returned" /\ m_ret.kind = "value"

\* The text is negated: it begins with "!".
TextNegated == startswith(m_pattern, Bang)

\* The text holds a "/" that is followed, somewhere, by another character:
\* a "/" that is not only trailing.
HasInnerSlash(text) ==
  \E i \in 1..Len(text) : \E j \in (i + 1)..Len(text) :
    text[i] = "/" /\ text[j] # "/"

\* Terms t1..tn glob-match the n consecutive segments that start at the
\* (0-based) segment k of the path.
TermsMatchAt(terms, path, k) ==
  /\ k + Len(terms) <= Len(path)
  /\ \A i \in 1..Len(terms) : fnmatch(path[k + i], terms[i])

\* Some segment of the path, at any position, glob-matches the term.
SomeSegmentMatches(term, path) ==
  \E i \in 1..Len(path) : fnmatch(path[i], term)

\* No "**" among the terms.
NoDoubleSplat(terms) == \A i \in 1..Len(terms) : terms[i] # DoubleSplat

\* The terms are P, "**", Q with no "**" in P or Q and Q not empty.
IsPSplatQ(terms) ==
  \E s \in 1..(Len(terms) - 1) :
    /\ terms[s] = DoubleSplat
    /\ \A i \in 1..Len(terms) : i # s => terms[i] # DoubleSplat

\* For such terms: where the "**" stands, P and Q.
SplatAt(terms) == CHOOSE s \in 1..Len(terms) : terms[s] = DoubleSplat
PartP(terms) == SubSeq(terms, 1, SplatAt(terms) - 1)
PartQ(terms) == SubSeq(terms, SplatAt(terms) + 1, Len(terms))

\* The directory check of a dir_only pattern applies to the call.
DirCheckApplies == endswith_slash(m_pattern) /\ m_call.rel_to.given

\* ------------------------------------------------------------------------
\* C3
\* ------------------------------------------------------------------------
\* C3 as stated, for calls without a base directory: a non-negated pattern
\* P/**/Q matches exactly when P matches the first |P| segments position by
\* position and Q matches the consecutive segments at SOME index k >= |P|.
C3_AnyAlignment ==
  (Returned /\ ~TextNegated /\ IsPSplatQ(m_self.terms) /\ ~m_call.rel_to.given)
    => LET P == PartP(m_self.terms)
           Q == PartQ(m_self.terms)
           path == m_call.rel_path
       IN m_ret.value =
            ( /\ TermsMatchAt(P, path, 0)
              /\ \E k \in Len(P)..Len(path) : TermsMatchAt(Q, path, k) )

\* C3 amended: the scan after "**" stops at the FIRST segment, at an index
\* k >= |P|, that glob-matches Q's first term, and Q has to match the
\* consecutive segments from that k; a later alignment is not tried.  (For a
\* pattern with a trailing "/" and a base directory, the k + |Q| segments
\* matched must also name a directory.)
C3_FirstAlignment ==
  (Returned /\ ~TextNegated /\ IsPSplatQ(m_self.terms))
    => LET P == PartP(m_self.terms)
           Q == PartQ(m_self.terms)
           path == m_call.rel_path
           ks == {k \in Len(P)..(Len(path) - 1) : fnmatch(path[k + 1], Q[1])}
       IN m_ret.value =
            ( /\ TermsMatchAt(P, path, 0)
              /\ ks # {}
              /\ LET k == CHOOSE x \in ks : \A y \in ks : x <= y
                 IN /\ TermsMatchAt(Q, path, k)
                    /\ DirCheckApplies
                         => is_dir(m_call.rel_to, Prefix(path, k + Len(Q))) )

\* A pattern P/**/Q with P not empty matched a path in which Q does not
\* match right after P: segments were skipped to reach the alignment.
C3_Witness ==
  /\ Returned /\ ~TextNegated /\ IsPSplatQ(m_self.terms)
  /\ LET P == PartP(m_self.terms)
         Q == PartQ(m_self.terms)
         path == m_call.rel_path
     IN /\ Len(P) >= 1
        /\ TermsMatchAt(P, path, 0)
        /\ ~TermsMatchAt(Q, path, Len(P))
        /\ m_ret.value

\* ------------------------------------------------------------------------
\* C4
\* ------------------------------------------------------------------------
\* C4 as stated: an anchored, non-negated pattern without "**" (its text
\* holds a "/" that is not only trailing) matches exactly when its n terms
\* glob-match the first n segments, one term per segment.
C4_PrefixOnly ==
  (Returned /\ ~TextNegated /\ HasInnerSlash(m_pattern)
     /\ NoDoubleSplat(m_self.terms))
    => m_ret.value = TermsMatchAt(m_self.terms, m_call.rel_path, 0)

\* C4 amended: as stated when the pattern has no trailing "/" or no base
\* directory is supplied; with a trailing "/" and a base directory the first
\* n segments must, in addition, name a directory under the base.
C4_PrefixAndDir ==
  (Returned /\ ~TextNegated /\ HasInnerSlash(m_pattern)
     /\ NoDoubleSplat(m_self.terms))
    => m_ret.value =
         ( /\ TermsMatchAt(m_self.terms, m_call.rel_path, 0)
           /\ DirCheckApplies
                => is_dir(m_call.rel_to,
                          Prefix(m_call.rel_path, Len(m_self.terms))) )

\* An anchored two-term pattern whose terms match somewhere later in the
\* path but not at its start: the verdict is "no match".
C4_Witness ==
  /\ Returned /\ ~TextNegated /\ HasInnerSlash(m_pattern)
  /\ NoDoubleSplat(m_self.terms)
  /\ Len(m_self.terms) = 2
  /\ ~TermsMatchAt(m_self.terms, m_call.rel_path, 0)
  /\ TermsMatchAt(m_self.terms, m_call.rel_path, 1)
  /\ ~m_ret.value

\* ------------------------------------------------------------------------
\* C5
\* ------------------------------------------------------------------------
\* The single term of a text without "/": the text itself, less the
\* backslash of a leading "\!".
SingleTerm(text) == IF startswith(text, SlashBang) THEN Tail(text) ELSE text

\* C5: a non-negated pattern whose text holds no "/", matched without a
\* base directory, matches exactly when some segment of the path, at any
\* position, glob-matches its single term.
C5_Unanchored ==
  (Returned /\ ~TextNegated /\ "/" \notin Range(m_pattern)
     /\ ~m_call.rel_to.given)
    => m_ret.value = SomeSegmentMatches(SingleTerm(m_pattern), m_call.rel_path)

\* A pattern without "/" matched a path whose first segment does not match
\* the term: the match was found further on.
C5_Witness ==
  /\ Returned /\ ~TextNegated /\ "/" \notin Range(m_pattern)
  /\ ~m_call.rel_to.given
  /\ Len(m_call.rel_path) >= 2
  /\ ~fnmatch(m_call.rel_path[1], SingleTerm(m_pattern))
  /\ m_ret.value

\* ------------------------------------------------------------------------
\* C6
\* ------------------------------------------------------------------------
\* C6 as stated: the anchored flag of a compiled pattern is true exactly
\* when its text holds a "/", the trailing one included.
C6_AnySlash ==
  (m_pc \in {"ready", "returned"})
    => (m_self.anchored <=> "/" \in Range(m_pattern))

\* C6 amended: the flag is true exactly when the text holds a "/" other
\* than its trailing ones; a pattern whose only "/" is the trailing one, such
\* as "venv/", is not anchored and, matched without a base directory,
\* matches when any segment glob-matches its term.
C6_InnerSlash ==
  /\ (m_pc \in {"ready", "returned"})
       => (m_self.anchored <=> HasInnerSlash(m_pattern))
  /\ (Returned /\ ~TextNegated /\ ~HasInnerSlash(m_pattern)
        /\ ~m_call.rel_to.given)
       => m_ret.value = SomeSegmentMatches(m_self.terms[1], m_call.rel_path)

\* A pattern whose only "/" is the trailing one matched a path at a segment
\* other than the first.
C6_Witness ==
  /\ Returned /\ ~TextNegated
  /\ endswith_slash(m_pattern) /\ ~HasInnerSlash(m_pattern)
  /\ ~m_self.anchored
  /\ ~m_call.rel_to.given
  /\ Len(m_call.rel_path) >= 2
  /\ ~fnmatch(m_call.rel_path[1], m_self.terms[1])
  /\ m_ret.value

\* ------------------------------------------------------------------------
\* C7
\* ------------------------------------------------------------------------
\* The text is one C7 speaks of: it begins with neither "!" nor a backslash.
PlainStart == m_pattern # <<>> /\ m_pattern[1] \notin {"!", "\\"}

\* C7: for a text p that compiles and begins with neither "!" nor a
\* backslash, "!" + p compiles too and, for the same path and the same base
\* directory (given or absent), its verdict is the negation of p's.
C7_Negation ==
  (Returned /\ PlainStart)
    => LET negated == RelPathPattern(Bang \o m_pattern)
       IN /\ ~negated.error
          /\ is_match(negated, m_call.rel_path, m_call.rel_to) = ~m_ret.value

\* A dir_only pattern with "**", matched against a base directory, whose
\* terms all match but whose matched prefix is no directory: p says no, so
\* "!" + p says yes.
C7_Witness ==
  /\ Returned /\ PlainStart
  /\ m_self.dir_only /\ m_call.rel_to.given
  /\ DoubleSplat \in Range(m_self.terms)
  /\ is_match(m_self, m_call.rel_path, NoRelTo)
  /\ ~m_ret.value

\* ------------------------------------------------------------------------
\* C8
\* ------------------------------------------------------------------------
\* The segments consumed by a match of the pattern, whatever the base
\* directory: the part_index that _is_match holds when the last term has
\* been matched.
Consumed(self, path) == matched_part_index(self, path, self.anchored, 0, 0)

\* C8: for a non-negated text p without a trailing "/", p + "/" matches,
\* given a base directory, exactly when p matches and the segments consumed
\* by the match name a directory under the base; without a base directory
\* p + "/" matches exactly when p does.
C8_DirOnly ==
  (Returned /\ ~TextNegated /\ ~endswith_slash(m_pattern))
    => LET dir_pattern == RelPathPattern(Append(m_pattern, "/"))
           path == m_call.rel_path
           consumed == Consumed(m_self, path)
       IN /\ ~dir_pattern.error /\ dir_pattern.dir_only /\ ~m_self.dir_only
          /\ is_match(dir_pattern, path, m_call.rel_to) =
               IF m_call.rel_to.given
                 THEN /\ m_ret.value
                      /\ consumed # NoMatch
                      /\ is_dir(m_call.rel_to, Prefix(path, consumed))
                 ELSE m_ret.value

\* p matched a path, with a base directory under which the segments it
\* consumed name no directory (a file): p matches and p + "/" does not.
C8_Witness ==
  /\ Returned /\ ~TextNegated /\ ~endswith_slash(m_pattern)
  /\ m_call.rel_to.given
  /\ m_ret.value
  /\ ~is_match(RelPathPattern(Append(m_pattern, "/")), m_call.rel_path,
               m_call.rel_to)

\* ------------------------------------------------------------------------
\* C1
\* ------------------------------------------------------------------------
\* No two members of the list, at different places, with is_descendant true
\* of them in either order.
IsAntichain(is_descendant, roots) ==
  \A i, j \in 1..Len(roots) :
    i # j => <<roots[i], roots[j]>> \notin is_descendant

\* C1: whatever the predicate and the input, the accumulator after every
\* step of the fold, and so the result, is an antichain.
C1_Antichain ==
  (r_pc \in {"fold", "done"}) => IsAntichain(r_is_descendant, r_roots)

\* The fold of three items is done and its last item, covering both roots
\* kept before it, is the only root left.
C1_Witness ==
  /\ r_pc = "done"
  /\ Len(r_input) = 3
  /\ r_input[1] # r_input[2]
  /\ <<r_input[1], r_input[2]>> \notin r_is_descendant
  /\ <<r_input[2], r_input[1]>> \notin r_is_descendant
  /\ <<r_input[1], r_input[3]>> \in r_is_descendant
  /\ <<r_input[2], r_input[3]>> \in r_is_descendant
  /\ r_roots = <<r_input[3]>>

\* ------------------------------------------------------------------------
\* C2
\* ------------------------------------------------------------------------
\* The relation is irreflexive and transitive over S.
IsStrictPartialOrder(rel, S) ==
  /\ \A x \in S : <<x, x>> \notin rel
  /\ \A x, y, z \in S :
       (<<x, y>> \in rel /\ <<y, z>> \in rel) => <<x, z>> \in rel

\* The items of the input that descend from no item of the input, in input
\* order.
Topmost(is_descendant, input) ==
  LET has_no_ancestor(x) ==
        \A i \in 1..Len(input) : <<x, input[i]>> \notin is_descendant
  IN SelectSeq(input, has_no_ancestor)

\* Path ancestry over a set of paths: x descends from y when y is a strict
\* prefix of x (y in x.parents).
PathAncestry(paths) ==
  {<<x, y>> \in paths \X paths : IsStrictPrefix(y, x)}

\* The inputs and results of test_root_reducer, one-letter segments.
ExampleOne == << <<"a">>, <<"a", "b">>, <<"a", "b", "c">>, <<"a", "b", "d">> >>
ExampleOneRoots == << <<"a">> >>
ExampleTwo ==
  << <<"a", "b">>, <<"a", "b", "c">>, <<"a", "b", "d", "e">>,
     <<"x", "y">>, <<"x", "y", "z">>, <<"x", "y", "w">> >>
ExampleTwoRoots == << <<"a", "b">>, <<"x", "y">> >>

\* C2: when is_descendant is a strict partial order, the fold returns
\* exactly the input items without an ancestor anywhere in the input, in
\* input order; and the two examples reduce as stated.
C2_TopmostInOrder ==
  (r_pc = "done" /\ IsStrictPartialOrder(r_is_descendant, Items))
    => /\ r_roots = Topmost(r_is_descendant, r_input)
       /\ reduce(PathAncestry(Range(ExampleOne)), ExampleOne, <<>>)
            = ExampleOneRoots
       /\ reduce(PathAncestry(Range(ExampleTwo)), ExampleTwo, <<>>)
            = ExampleTwoRoots

\* Under a strict partial order, the first of three items has its ancestor
\* last in the input: it was a root and is evicted, and the two others are
\* the result, in input order.
C2_Witness ==
  /\ r_pc = "done"
  /\ IsStrictPartialOrder(r_is_descendant, Items)
  /\ Len(r_input) = 3
  /\ <<r_input[1], r_input[3]>> \in r_is_descendant
  /\ r_roots = <<r_input[2], r_input[3]>>

\* ------------------------------------------------------------------------
\* Vocabulary of the discovery claims
\* ------------------------------------------------------------------------
\* The base the exclude patterns are matched against: the search directory.
SearchBase == RelTo(fs_dirs(d_fs))

\* The relative path matches no exclude pattern.
MatchesNoExclude(rel_path) ==
  \A i \in 1..Len(d_patterns) : ~is_match(d_patterns[i], rel_path, SearchBase)

\* The directory contributes a surviving __init__.py candidate: its
\* __init__.py is a regular file, no namespace marker, and not excluded.
HasSurvivingInit(dir) ==
  /\ d_fs[Append(dir, InitPy)] = "file"
  /\ MatchesNoExclude(Append(dir, InitPy))

\* The directories of the trees that may hold an __init__.py and have no
\* "." in a segment: ns and ns/sub.
PackageDirs ==
  {q \in Places : Append(q, InitPy) \in Places
                  /\ \A i \in 1..Len(q) : "." \notin Range(q[i])}

\* The modules returned whose rel_path is the given one, by place in the
\* list.
ReturnedAt(rel_path) ==
  {i \in 1..Len(d_result) : d_result[i].rel_path = rel_path}

NsSubName == <<"n", "s", ".", "s", "u", "b">>

\* ------------------------------------------------------------------------
\* C9
\* ------------------------------------------------------------------------
\* C9: a directory D = s1/.../sn without "." in its segments, whose
\* __init__.py is a regular file, no namespace marker and not excluded, and
\* none of whose ancestors below the search directory contributes a
\* surviving __init__.py candidate, is returned exactly once, named
\* s1.....sn ("ns.sub" for ns/sub); no ancestor of D and nothing beneath D
\* is returned.
C9_NamespaceRoot ==
  (d_pc = "done" /\ d_root = "dir")
    => \A D \in PackageDirs :
         ( /\ HasSurvivingInit(D)
           /\ \A n \in 1..(Len(D) - 1) : ~HasSurvivingInit(Prefix(D, n)) )
         => /\ Cardinality(ReturnedAt(D)) = 1
            /\ \A i \in ReturnedAt(D) :
                 /\ name(d_result[i]) = dot_join(D)
                 /\ D = <<Ns, Sub>> => name(d_result[i]) = NsSubName
            /\ \A i \in 1..Len(d_result) :
                 /\ ~IsStrictPrefix(d_result[i].rel_path, D)
                 /\ ~IsStrictPrefix(D, d_result[i].rel_path)

\* ns has no __init__.py of its own that counts, ns/sub has one and a
\* module file beside it: two candidates were collected and ns/sub alone
\* is returned.
C9_Witness ==
  /\ d_pc = "done" /\ d_root = "dir"
  /\ d_fs[<<Ns, InitPy>>] # "file"
  /\ d_fs[<<Ns, Sub, MPy>>] = "file"
  /\ HasSurvivingInit(<<Ns, Sub>>)
  /\ Len(d_found) = 2
  /\ d_result = <<FoundModule(<<Ns, Sub>>)>>

\* ------------------------------------------------------------------------
\* C10
\* ------------------------------------------------------------------------
\* The paths the exclude patterns are tried on: the places of the trees.
\* Each stands with the longer places it is a prefix of.
PlacePairs ==
  {pair \in Places \X Places : IsStrictPrefix(pair[1], pair[2])}

\* C10: a non-negated exclude pattern that matches a relative path, with
\* the search directory as base, matches every path that extends it; and no
\* module collected or returned, module file or package directory, has a
\* rel_path that a non-negated exclude pattern matches.
C10_ExclusionKept ==
  (d_pc \in {"walk", "done"})
    => \A i \in 1..Len(d_patterns) :
         ~d_patterns[i].negate
         => /\ \A pair \in PlacePairs :
                 is_match(d_patterns[i], pair[1], SearchBase)
                   => is_match(d_patterns[i], pair[2], SearchBase)
            /\ \A k \in 1..Len(d_found) :
                 ~is_match(d_patterns[i], d_found[k].rel_path, SearchBase)
            /\ \A k \in 1..Len(d_result) :
                 ~is_match(d_patterns[i], d_result[k].rel_path, SearchBase)

\* The first half of C10 over every pattern and path of the matcher's
\* specification: a non-negated pattern that matches a path matches the path
\* extended by any segment, against the same base directory.
C10_MatchExtends ==
  (Returned /\ ~TextNegated /\ m_ret.value)
    => \A segment \in SegSet :
         is_match(m_self, Append(m_call.rel_path, segment), m_call.rel_to)

\* With a non-negated exclude pattern, an __init__.py under ns was excluded
\* and ns itself, put in place of its own __init__.py, is returned.
C10_Witness ==
  /\ d_pc = "done" /\ d_root = "dir"
  /\ Len(d_patterns) >= 1
  /\ \A i \in 1..Len(d_patterns) : ~d_patterns[i].negate
  /\ d_fs[<<Ns, Sub, InitPy>>] = "file"
  /\ ~MatchesNoExclude(<<Ns, Sub, InitPy>>)
  /\ d_fs[<<Ns, InitPy>>] = "file"
  /\ ReturnedAt(<<Ns>>) # {}

====
